---- MODULE Spec2Model ----
(***************************************************************************)
(* Model of src/update-release-notes.js: the script that copies the latest *)
(* version section of an SDK changelog into a release-notes document.      *)
(*                                                                         *)
(* Text is modelled character by character: a string is a sequence of      *)
(* one-character strings, so split, join, trim, startsWith and includes    *)
(* are computed as JavaScript computes them.  The word "Overview" is       *)
(* abbreviated to the single letter "O" to keep documents short.           *)
(***************************************************************************)
EXTENDS Integers, Sequences, FiniteSets, TLC

VARIABLES
    changelogFile,     \* the file at SDK_CHANGELOG_PATH: [exists, data]
    releaseNotesFile,  \* the file at RELEASE_NOTES_PATH: [exists, data]
    webhookUrl,        \* TRUE iff SLACK_WEBHOOK_URL is set
    pc,                \* position inside updateReleaseNotes
    newRelease,        \* the record returned by parseChangelog
    existingContent,   \* local variable of updateReleaseNotes
    updatedContent,    \* local variable of updateReleaseNotes: << >> while undefined, <<text>> once assigned
    exitCode,          \* exit code of the process (1 after process.exit(1))
    writes,            \* number of fs.writeFileSync calls on the destination
    posts,             \* number of axios.post calls
    slack,             \* outcome of sendSlackNotification: "none", "skipped", "sent", "failed"
    notesAtStart,      \* the destination file as it was when the run started
    cycles,            \* number of merge cycles applied (merge specification)
    results            \* destination contents after each merge cycle (merge specification)

vars == <<changelogFile, releaseNotesFile, webhookUrl, pc, newRelease,
          existingContent, updatedContent, exitCode, writes, posts, slack,
          notesAtStart, cycles, results>>

----------------------------------------------------------------------------
(* Bounds *)

MaxSrcLines == 3      \* lines of a changelog given to parseChangelog alone
MaxRunSrcLines == 2   \* lines of the changelog in a full run
MaxRunDocLines == 3   \* lines of the destination in a full run
MaxMergeLines == 4    \* lines of the destination in the merge cycle
MaxCycles == 2        \* merge cycles applied in a row

----------------------------------------------------------------------------
(* Characters and strings *)

NL == "\n"
SP == " "

IsWhitespace(c) == c \in {SP, NL}

VersionPrefix == <<"#", "#", " ", "[">>
OverviewMarker == <<"#", "#", " ", "O">>
FrontmatterFence == <<"-", "-", "-">>

\* String.prototype.startsWith
startsWith(s, p) == Len(s) >= Len(p) /\ SubSeq(s, 1, Len(p)) = p

\* String.prototype.includes
includes(s, p) == \E i \in 0..(Len(s) - Len(p)) : SubSeq(s, i + 1, i + Len(p)) = p

\* String.prototype.trim
RECURSIVE trimStart(_)
trimStart(s) ==
    IF s # << >> /\ IsWhitespace(Head(s)) THEN trimStart(Tail(s)) ELSE s

RECURSIVE trimEnd(_)
trimEnd(s) ==
    IF s # << >> /\ IsWhitespace(s[Len(s)]) THEN trimEnd(SubSeq(s, 1, Len(s) - 1)) ELSE s

trim(s) == trimEnd(trimStart(s))

\* String.prototype.split("\n")
RECURSIVE split(_)
split(s) ==
    IF \A i \in 1..Len(s) : s[i] # NL
    THEN <<s>>
    ELSE LET k == CHOOSE i \in 1..Len(s) : s[i] = NL /\ \A j \in 1..(i - 1) : s[j] # NL
         IN  <<SubSeq(s, 1, k - 1)>> \o split(SubSeq(s, k + 1, Len(s)))

\* Array.prototype.join("\n")
RECURSIVE join(_)
join(lines) ==
    IF lines = << >> THEN << >>
    ELSE IF Len(lines) = 1 THEN lines[1]
    ELSE lines[1] \o <<NL>> \o join(Tail(lines))

----------------------------------------------------------------------------
(* parseChangelog *)

\* parseLoop without the break at the second version header
RECURSIVE parseLoop_NoBreak(_, _, _, _, _)
parseLoop_NoBreak(lines, i, inLatestVersion, latestVersion, latestContent) ==
    IF i > Len(lines)
    THEN [version |-> latestVersion, latestContent |-> latestContent]
    ELSE LET line == lines[i] IN
         IF startsWith(line, VersionPrefix)
         THEN IF ~inLatestVersion
              THEN parseLoop_NoBreak(lines, i + 1, TRUE, trim(line), Append(latestContent, line))
              ELSE parseLoop_NoBreak(lines, i + 1, inLatestVersion, latestVersion, latestContent)
         ELSE IF inLatestVersion
              THEN parseLoop_NoBreak(lines, i + 1, inLatestVersion, latestVersion, Append(latestContent, line))
              ELSE parseLoop_NoBreak(lines, i + 1, inLatestVersion, latestVersion, latestContent)

\* the for loop of parseChangelog; returns [version, latestContent]
RECURSIVE parseLoop(_, _, _, _, _)
parseLoop(lines, i, inLatestVersion, latestVersion, latestContent) ==
    IF i > Len(lines)
    THEN [version |-> latestVersion, latestContent |-> latestContent]
    ELSE LET line == lines[i] IN
         IF startsWith(line, VersionPrefix)
         THEN IF ~inLatestVersion
              THEN parseLoop(lines, i + 1, TRUE, trim(line), Append(latestContent, line))
              ELSE [version |-> latestVersion, latestContent |-> latestContent]
         ELSE IF inLatestVersion
              THEN parseLoop(lines, i + 1, inLatestVersion, latestVersion, Append(latestContent, line))
              ELSE parseLoop(lines, i + 1, inLatestVersion, latestVersion, latestContent)

cleanFilter(lines) == SelectSeq(lines, LAMBDA line : ~startsWith(line, VersionPrefix))

parseChangelog(changelogContent) ==
    LET r == parseLoop(split(changelogContent), 1, FALSE, << >>, << >>)
        cleanContent == cleanFilter(r.latestContent)
    IN  [version |-> r.version,
         content |-> trim(join(cleanContent)),
         full    |-> trim(r.version \o <<NL>> \o join(cleanContent))]

----------------------------------------------------------------------------
(* insertReleaseIntoDocs *)

\* the for loop of insertReleaseIntoDocs; returns insertIndex.
\* k is the 1-based line number, so the loop index i of the source is k - 1.
RECURSIVE insertLoop(_, _, _, _, _)
insertLoop(lines, k, inFrontmatter, overviewFound, insertIndex) ==
    IF k > Len(lines) THEN insertIndex
    ELSE LET line == lines[k] IN
         IF trim(line) = FrontmatterFence /\ ~inFrontmatter
         THEN insertLoop(lines, k + 1, TRUE, overviewFound, insertIndex)
         ELSE IF trim(line) = FrontmatterFence /\ inFrontmatter
         THEN insertLoop(lines, k + 1, FALSE, overviewFound, insertIndex)
         ELSE IF ~inFrontmatter /\ startsWith(line, OverviewMarker)
         THEN insertLoop(lines, k + 1, inFrontmatter, TRUE, k - 1)
         ELSE IF overviewFound /\ startsWith(line, VersionPrefix)
         THEN insertIndex
         ELSE IF overviewFound
         THEN insertLoop(lines, k + 1, inFrontmatter, overviewFound, k)
         ELSE insertLoop(lines, k + 1, inFrontmatter, overviewFound, insertIndex)

insertReleaseIntoDocs(docsContent, release) ==
    LET lines == split(docsContent)
        insertIndex == insertLoop(lines, 1, FALSE, FALSE, 0)
        before == join(SubSeq(lines, 1, insertIndex))
        after == join(SubSeq(lines, insertIndex + 1, Len(lines)))
    IN  trim(before \o <<NL, NL>> \o release.full \o <<NL, NL>> \o after)

----------------------------------------------------------------------------
(* removeDuplicateHeaders *)

RECURSIVE dedupLoop(_, _, _, _)
dedupLoop(lines, i, seenHeaders, cleanedLines) ==
    IF i > Len(lines) THEN cleanedLines
    ELSE LET line == lines[i] IN
         IF startsWith(line, VersionPrefix) /\ trim(line) \in seenHeaders
         THEN dedupLoop(lines, i + 1, seenHeaders, cleanedLines)
         ELSE dedupLoop(lines, i + 1,
                        IF startsWith(line, VersionPrefix)
                        THEN seenHeaders \cup {trim(line)} ELSE seenHeaders,
                        Append(cleanedLines, line))

\* removeDuplicateHeaders that drops nothing
removeDuplicateHeaders_KeepAll(content) == content

removeDuplicateHeaders(content) == join(dedupLoop(split(content), 1, {}, << >>))

----------------------------------------------------------------------------
(* the merge cycle of updateReleaseNotes (lines 168-187) *)

\* an existence check that never finds the release
alreadyExists_Never(existing, release) == FALSE

\* the existence check: the run returns without writing
alreadyExists(existing, release) == includes(existing, release.version)

\* placement without the final trim
placeRelease_NoTrim(existing, release) ==
    IF includes(existing, OverviewMarker)
    THEN insertReleaseIntoDocs(existing, release)
    ELSE release.full \o <<NL, NL>> \o existing

\* the placement of the new release in the de-duplicated content
placeRelease(existing, release) ==
    IF includes(existing, OverviewMarker)
    THEN insertReleaseIntoDocs(existing, release)
    ELSE trim(release.full \o <<NL, NL>> \o existing)

\* lines 168-187 of updateReleaseNotes as a function of the destination text
\* and the parsed release: skip is TRUE when the run returns at line 173
mergeCycle(existing, release) ==
    IF alreadyExists(existing, release)
    THEN [skip |-> TRUE, existingContent |-> existing, updatedContent |-> << >>]
    ELSE LET cleaned == removeDuplicateHeaders(existing)
         IN  [skip |-> FALSE, existingContent |-> cleaned,
              updatedContent |-> <<placeRelease(cleaned, release)>>]

----------------------------------------------------------------------------
(* Input documents *)

V1 == <<"#", "#", " ", "[", "1", "]">>
V2 == <<"#", "#", " ", "[", "2", "]">>
V1Trailing == <<"#", "#", " ", "[", "1", "]", " ">>
V1Indented == <<" ", "#", "#", " ", "[", "1", "]">>
Overview == <<"#", "#", " ", "O">>
Text == <<"a">>
Blank == << >>
Fence == <<"-", "-", "-">>

\* every document of 1..max lines taken from lineSet
Documents(lineSet, max) ==
    {join(ls) : ls \in UNION {[1..n -> lineSet] : n \in 1..max}}

File(text) == [exists |-> TRUE, data |-> text]
Missing == [exists |-> FALSE, data |-> << >>]

ParseLines == {V1, V2, V1Trailing, Text, Blank}
RunSrcLines == {V1, V2, Text, Blank}
RunDocLines == {V1, V2, Overview, Text, Blank, Fence}
MergeLines == {V1, V2, V1Trailing, V1Indented, Overview, Text, Blank, Fence}

\* the releases merged in the merge specification, parsed from changelogs
MergeSources == {join(<<V2, Text>>), join(<<V1, Blank, Text, Blank, Text>>), V2}
MergeReleases == {parseChangelog(s) : s \in MergeSources}

NoRelease == [version |-> << >>, content |-> << >>, full |-> << >>]

----------------------------------------------------------------------------
(* Specification of one run of updateReleaseNotes *)

Init ==
    /\ changelogFile \in {Missing} \cup {File(d) : d \in Documents(RunSrcLines, MaxRunSrcLines)}
    /\ releaseNotesFile \in {Missing} \cup {File(d) : d \in Documents(RunDocLines, MaxRunDocLines)}
    /\ webhookUrl \in BOOLEAN
    /\ pc = "readChangelog"
    /\ newRelease = NoRelease
    /\ existingContent = << >>
    /\ updatedContent = << >>
    /\ exitCode = 0
    /\ writes = 0
    /\ posts = 0
    /\ slack = "none"
    /\ notesAtStart = releaseNotesFile
    /\ cycles = 0
    /\ results = << >>

\* ReadChangelog that goes on after a failed parse
ReadChangelog_NoParseCheck ==
    /\ pc = "readChangelog"
    /\ IF ~changelogFile.exists
       THEN /\ pc' = "done"
            /\ exitCode' = 1
            /\ UNCHANGED newRelease
       ELSE /\ newRelease' = parseChangelog(changelogFile.data)
            /\ pc' = "readReleaseNotes"
            /\ UNCHANGED exitCode
    /\ UNCHANGED <<changelogFile, releaseNotesFile, webhookUrl, existingContent,
                   updatedContent, writes, posts, slack, notesAtStart, cycles, results>>

\* lines 146-158: readFile(SDK_CHANGELOG_PATH), parseChangelog, validity check.
\* readFile (lines 22-29) calls process.exit(1) when the read throws.
ReadChangelog ==
    /\ pc = "readChangelog"
    /\ IF ~changelogFile.exists
       THEN /\ pc' = "done"
            /\ exitCode' = 1
            /\ UNCHANGED newRelease
       ELSE LET parsed == parseChangelog(changelogFile.data) IN
            /\ newRelease' = parsed
            /\ IF parsed.version = << >> \/ parsed.content = << >>
               THEN pc' = "done" /\ exitCode' = 1
               ELSE pc' = "readReleaseNotes" /\ UNCHANGED exitCode
    /\ UNCHANGED <<changelogFile, releaseNotesFile, webhookUrl, existingContent,
                   updatedContent, writes, posts, slack, notesAtStart, cycles, results>>

\* lines 160-187: readFile(RELEASE_NOTES_PATH), existence check, merge.
\* readFile never throws: on a failed read it calls process.exit(1) itself,
\* so the catch at line 164 is never entered.
ReadReleaseNotes ==
    /\ pc = "readReleaseNotes"
    /\ IF ~releaseNotesFile.exists
       THEN /\ pc' = "done"
            /\ exitCode' = 1
            /\ UNCHANGED <<existingContent, updatedContent>>
       ELSE LET m == mergeCycle(releaseNotesFile.data, newRelease) IN
            /\ existingContent' = m.existingContent
            /\ updatedContent' = m.updatedContent
            /\ pc' = IF m.skip THEN "done" ELSE "write"
            /\ UNCHANGED exitCode
    /\ UNCHANGED <<changelogFile, releaseNotesFile, webhookUrl, newRelease,
                   writes, posts, slack, notesAtStart, cycles, results>>

\* line 190 and writeFile (lines 31-39): a failed write exits with 1; the
\* file is then either untouched or left truncated by the failed call
WriteReleaseNotes ==
    /\ pc = "write"
    /\ writes' = writes + 1
    /\ \/ /\ releaseNotesFile' = File(updatedContent[1])
          /\ pc' = "notify"
          /\ UNCHANGED exitCode
       \/ /\ releaseNotesFile' \in {releaseNotesFile, File(<< >>)}
          /\ pc' = "done"
          /\ exitCode' = 1
    /\ UNCHANGED <<changelogFile, webhookUrl, newRelease, existingContent,
                   updatedContent, posts, slack, notesAtStart, cycles, results>>

\* sendSlackNotification that lets a failed delivery end the process with 1
SendSlackNotification_Fatal ==
    /\ pc = "notify"
    /\ IF ~webhookUrl
       THEN slack' = "skipped" /\ UNCHANGED <<posts, exitCode>>
       ELSE /\ posts' = posts + 1
            /\ \/ slack' = "sent" /\ UNCHANGED exitCode
               \/ slack' = "failed" /\ exitCode' = 1
    /\ pc' = "done"
    /\ UNCHANGED <<changelogFile, releaseNotesFile, webhookUrl, newRelease,
                   existingContent, updatedContent, writes,
                   notesAtStart, cycles, results>>

\* lines 192-199 and sendSlackNotification (lines 127-141)
SendSlackNotification ==
    /\ pc = "notify"
    /\ IF ~webhookUrl
       THEN slack' = "skipped" /\ UNCHANGED posts
       ELSE posts' = posts + 1 /\ slack' \in {"sent", "failed"}
    /\ pc' = "done"
    /\ UNCHANGED <<changelogFile, releaseNotesFile, webhookUrl, newRelease,
                   existingContent, updatedContent, exitCode, writes,
                   notesAtStart, cycles, results>>

Next == ReadChangelog \/ ReadReleaseNotes \/ WriteReleaseNotes \/ SendSlackNotification

Spec == Init /\ [][Next]_vars

----------------------------------------------------------------------------
(* Specification of parseChangelog alone *)

InitParse ==
    /\ changelogFile \in {File(d) : d \in Documents(ParseLines, MaxSrcLines)}
    /\ releaseNotesFile = Missing
    /\ webhookUrl = FALSE
    /\ pc = "parse"
    /\ newRelease = NoRelease
    /\ existingContent = << >>
    /\ updatedContent = << >>
    /\ exitCode = 0
    /\ writes = 0
    /\ posts = 0
    /\ slack = "none"
    /\ notesAtStart = releaseNotesFile
    /\ cycles = 0
    /\ results = << >>

\* line 151
ParseStep ==
    /\ pc = "parse"
    /\ newRelease' = parseChangelog(changelogFile.data)
    /\ pc' = "parsed"
    /\ UNCHANGED <<changelogFile, releaseNotesFile, webhookUrl, existingContent,
                   updatedContent, exitCode, writes, posts, slack, notesAtStart,
                   cycles, results>>

NextParse == ParseStep

SpecParse == InitParse /\ [][NextParse]_vars

----------------------------------------------------------------------------
(* Specification of the merge cycle, applied repeatedly to one destination *)

InitMerge ==
    /\ changelogFile = Missing
    /\ releaseNotesFile \in {File(d) : d \in Documents(MergeLines, MaxMergeLines)}
    /\ webhookUrl = FALSE
    /\ pc = "merge"
    /\ newRelease \in MergeReleases
    /\ existingContent = << >>
    /\ updatedContent = << >>
    /\ exitCode = 0
    /\ writes = 0
    /\ posts = 0
    /\ slack = "none"
    /\ notesAtStart = releaseNotesFile
    /\ cycles = 0
    /\ results = << >>

\* lines 160-190 with every file operation succeeding: the destination is
\* read, merged with newRelease and, unless the release is already there,
\* written back
MergeStep ==
    /\ pc = "merge"
    /\ cycles < MaxCycles
    /\ LET m == mergeCycle(releaseNotesFile.data, newRelease) IN
       /\ existingContent' = m.existingContent
       /\ updatedContent' = m.updatedContent
       /\ releaseNotesFile' = IF m.skip THEN releaseNotesFile ELSE File(m.updatedContent[1])
       /\ writes' = IF m.skip THEN writes ELSE writes + 1
    /\ cycles' = cycles + 1
    /\ results' = Append(results, releaseNotesFile'.data)
    /\ UNCHANGED <<changelogFile, webhookUrl, pc, newRelease, exitCode, posts,
                   slack, notesAtStart>>

NextMerge == MergeStep

SpecMerge == InitMerge /\ [][NextMerge]_vars

----------------------------------------------------------------------------
(* Vocabulary of the properties, stated on lines and independently of the *)
(* loops above                                                             *)

Min(S) == CHOOSE x \in S : \A y \in S : x <= y

IsHeaderLine(line) == startsWith(line, VersionPrefix)
HeaderIdxs(lines) == {i \in 1..Len(lines) : IsHeaderLine(lines[i])}

\* the lines strictly between the first version header and the next one
SectionBody(lines) ==
    LET first == Min(HeaderIdxs(lines))
        later == {j \in HeaderIdxs(lines) : j > first}
        last == IF later = {} THEN Len(lines) ELSE Min(later) - 1
    IN  SubSeq(lines, first + 1, last)

\* the text lines of a document: every line trimmed, blank lines left out
TextLines(lines) ==
    LET trimmed == [i \in 1..Len(lines) |-> trim(lines[i])]
    IN  SelectSeq(trimmed, LAMBDA l : l # << >>)

\* the header lines of doc whose trimmed text is h
Occurrences(doc, h) ==
    LET lines == split(doc)
    IN  Cardinality({i \in HeaderIdxs(lines) : trim(lines[i]) = h})

\* the header texts that doc has on two or more lines
DuplicatedHeaders(doc) ==
    LET lines == split(doc)
    IN  {h \in {trim(lines[i]) : i \in HeaderIdxs(lines)} : Occurrences(doc, h) >= 2}

\* the Overview lines outside the front-matter block
OverviewIdxs(lines) ==
    {i \in 1..Len(lines) :
        /\ startsWith(lines[i], OverviewMarker)
        /\ trim(lines[i]) # FrontmatterFence
        /\ Cardinality({j \in 1..(i - 1) : trim(lines[j]) = FrontmatterFence}) % 2 = 0}

\* line number of the first version header after the Overview line, or one
\* past the last line
HeaderAfterOverview(lines) ==
    LET ov == Min(OverviewIdxs(lines))
        later == {j \in HeaderIdxs(lines) : j > ov}
    IN  IF later = {} THEN Len(lines) + 1 ELSE Min(later)

----------------------------------------------------------------------------
(* Properties of parseChangelog (SpecParse) *)

\* C7 as stated: the header is the first "## [" line, trimmed, and the body
\* is exactly the lines between it and the next "## [" line; without a
\* header line both are empty
C7_BodyIsExactlyTheLines ==
    pc = "parsed" =>
        LET lines == split(changelogFile.data) IN
        IF HeaderIdxs(lines) = {}
        THEN newRelease.version = << >> /\ newRelease.content = << >>
        ELSE /\ newRelease.version = trim(lines[Min(HeaderIdxs(lines))])
             /\ newRelease.content = join(SectionBody(lines))

\* C7 amended: the body is those lines joined and then trimmed of leading
\* and trailing whitespace; full is the header followed by the body, trimmed
C7_FirstSectionTrimmed ==
    pc = "parsed" =>
        LET lines == split(changelogFile.data) IN
        IF HeaderIdxs(lines) = {}
        THEN newRelease.version = << >> /\ newRelease.content = << >>
        ELSE /\ newRelease.version = trim(lines[Min(HeaderIdxs(lines))])
             /\ newRelease.content = trim(join(SectionBody(lines)))
             /\ newRelease.full = trim(newRelease.version \o <<NL>> \o join(SectionBody(lines)))

C7_Witness ==
    /\ pc = "parsed"
    /\ Cardinality(HeaderIdxs(split(changelogFile.data))) >= 2
    /\ newRelease.content # << >>

----------------------------------------------------------------------------
(* Properties of the merge cycle (SpecMerge) *)

\* C2: merging the same release again leaves the document of the first
\* merge unchanged, and the release's header occurs no more often than
\* after the first merge
C2_MergeIdempotent ==
    \A i \in 2..Len(results) :
        /\ results[i] = results[1]
        /\ Occurrences(results[i], newRelease.version)
               <= Occurrences(results[1], newRelease.version)

C2_Witness ==
    /\ cycles >= 2
    /\ newRelease.version # << >>
    /\ results[1] # notesAtStart.data
    /\ results[2] = results[1]

C5_ReleaseAfterOverview ==
    (cycles = 1 /\ updatedContent # << >>) =>
        LET lines == split(existingContent) IN
        OverviewIdxs(lines) # {} =>
            LET at == HeaderAfterOverview(lines) IN
            TextLines(split(updatedContent[1])) =
                TextLines(SubSeq(lines, 1, at - 1))
                    \o TextLines(split(newRelease.full))
                    \o TextLines(SubSeq(lines, at, Len(lines)))

\* C6: inserted between Overview content ending in a non-blank line and a
\* following version header, the release has exactly one blank line before
\* its header and exactly two blank lines after its last line
C6_OneBlankBeforeTwoAfter ==
    (cycles = 1 /\ updatedContent # << >>) =>
        LET lines == split(existingContent) IN
        (/\ OverviewIdxs(lines) # {}
         /\ HeaderAfterOverview(lines) <= Len(lines)
         /\ HeaderAfterOverview(lines) - 1 > Min(OverviewIdxs(lines))
         /\ trim(lines[HeaderAfterOverview(lines) - 1]) # << >>) =>
            LET at == HeaderAfterOverview(lines)
                out == split(updatedContent[1])
                first == Min({i \in 1..Len(out) : out[i] = newRelease.version})
                last == first + Len(split(newRelease.full)) - 1
            IN  /\ first >= 3
                /\ out[first - 1] = << >>
                /\ trim(out[first - 2]) = trim(lines[at - 1])
                /\ last + 3 <= Len(out)
                /\ out[last + 1] = << >>
                /\ out[last + 2] = << >>
                /\ out[last + 3] = lines[at]

----------------------------------------------------------------------------
(* Properties of a run of updateReleaseNotes (Spec) *)

\* the changelog was read and its first section has a header
HeaderParsed == changelogFile.exists /\ newRelease.version # << >>

\* the write of the destination failed
WriteFailed == writes = 1 /\ exitCode = 1

\* C1: a missing destination is not fatal: with a readable changelog that
\* parses to a valid release, the run ends with exit code 0 and the
\* destination holds the new release
C1_MissingDestinationTolerated ==
    (/\ pc = "done"
     /\ HeaderParsed
     /\ newRelease.content # << >>
     /\ ~notesAtStart.exists) =>
        /\ exitCode = 0
        /\ releaseNotesFile = File(newRelease.full)

\* C3 as stated: whenever the destination contains the parsed header, the
\* run leaves it unchanged, writes nothing, notifies nobody and ends with
\* exit code 0
C3_ShortCircuitAnyRelease ==
    (/\ pc = "done"
     /\ HeaderParsed
     /\ notesAtStart.exists
     /\ includes(notesAtStart.data, newRelease.version)) =>
        /\ releaseNotesFile = notesAtStart
        /\ writes = 0
        /\ posts = 0
        /\ exitCode = 0

\* C3 amended: the same, for a parsed release whose body is not empty
C3_ShortCircuitValidRelease ==
    (/\ pc = "done"
     /\ HeaderParsed
     /\ newRelease.content # << >>
     /\ notesAtStart.exists
     /\ includes(notesAtStart.data, newRelease.version)) =>
        /\ releaseNotesFile = notesAtStart
        /\ writes = 0
        /\ posts = 0
        /\ slack = "none"
        /\ exitCode = 0

C3_Witness ==
    /\ pc = "done"
    /\ HeaderParsed
    /\ newRelease.content # << >>
    /\ notesAtStart.exists
    /\ includes(notesAtStart.data, newRelease.version)
    /\ releaseNotesFile = notesAtStart
    /\ exitCode = 0

\* C8: the destination is written at most once and only with the merged
\* document; a run that cannot read the changelog or finds no version
\* header in it exits with 1, writes nothing and notifies nobody
C8_SingleWriteNoneOnFatal ==
    /\ writes <= 1
    /\ writes = 1 =>
          /\ updatedContent # << >>
          /\ WriteFailed \/ releaseNotesFile = File(updatedContent[1])
    /\ writes = 0 => releaseNotesFile = notesAtStart
    /\ (/\ pc = "done"
        /\ \/ ~changelogFile.exists
           \/ HeaderIdxs(split(changelogFile.data)) = {}) =>
          /\ exitCode = 1
          /\ writes = 0
          /\ posts = 0
          /\ slack = "none"
          /\ releaseNotesFile = notesAtStart

C8_Witness ==
    /\ pc = "done"
    /\ changelogFile.exists
    /\ HeaderIdxs(split(changelogFile.data)) = {}
    /\ notesAtStart.exists
    /\ exitCode = 1

\* C9: at most one notification is attempted, only after a successful
\* write; a failed delivery leaves the run successful with the destination
\* written; without a webhook URL nothing is posted
C9_NotificationBestEffort ==
    /\ posts <= 1
    /\ posts = 1 =>
          /\ writes = 1
          /\ releaseNotesFile = File(updatedContent[1])
    /\ slack = "failed" =>
          /\ pc = "done"
          /\ exitCode = 0
          /\ releaseNotesFile = File(updatedContent[1])
    /\ ~webhookUrl => posts = 0

C9_Witness ==
    /\ pc = "done"
    /\ slack = "failed"
    /\ posts = 1

\* the section of a changelog with exactly one version header: the header,
\* trimmed, followed by its body, the whole trimmed
TrimmedEntry(changelog) ==
    LET lines == split(changelog)
        h == Min(HeaderIdxs(lines))
    IN  trim(trim(lines[h]) \o <<NL>> \o join(SubSeq(lines, h + 1, Len(lines))))

OneSection(changelog) == Cardinality(HeaderIdxs(split(changelog))) = 1

\* C10 as stated: a changelog with exactly one version section, whatever its
\* body, merged into an empty destination leaves the trimmed entry there
C10_RoundTripAnyBody ==
    (/\ pc = "done"
     /\ changelogFile.exists
     /\ OneSection(changelogFile.data)
     /\ notesAtStart = File(<< >>)
     /\ ~WriteFailed) =>
        releaseNotesFile.data = TrimmedEntry(changelogFile.data)

\* C10 amended: the same, for a section whose body has a character that is
\* not whitespace
C10_RoundTripNonEmptyBody ==
    (/\ pc = "done"
     /\ changelogFile.exists
     /\ OneSection(changelogFile.data)
     /\ trim(join(SectionBody(split(changelogFile.data)))) # << >>
     /\ notesAtStart = File(<< >>)
     /\ ~WriteFailed) =>
        releaseNotesFile.data = TrimmedEntry(changelogFile.data)

C10_Witness ==
    /\ pc = "done"
    /\ changelogFile.exists
    /\ OneSection(changelogFile.data)
    /\ notesAtStart = File(<< >>)
    /\ writes = 1
    /\ exitCode = 0
    /\ releaseNotesFile.data = TrimmedEntry(changelogFile.data)
    /\ releaseNotesFile.data # << >>

====
